---- MODULE Spec2Model ----
(***************************************************************************)
(* A model of qna/src/question_and_answer.ts: the feature builder          *)
(* (QuestionAndAnswerImpl.process), the answer decoder (getBestIndex,      *)
(* getBestAnswers, convertBack) and the findAnswers call that joins them   *)
(* around one execution of the model.                                      *)
(*                                                                         *)
(* Strings are sequences of one-character strings.  Positions in the       *)
(* model's arrays are kept 0-based as in the source: an array of the       *)
(* source is a sequence here, and element p of the array is element p + 1  *)
(* of the sequence.  Logit arrays are functions over 0 .. MAX_SEQ_LEN - 1. *)
(* Logits are integers (a subset of the source's floats).                  *)
(***************************************************************************)
EXTENDS Integers, Sequences, FiniteSets, TLC

\* ------------------------------------------------------------ constants
MAX_ANSWER_LEN == 32
MAX_QUERY_LEN == 64
MAX_SEQ_LEN == 384
PREDICT_ANSWER_NUM == 5
OUTPUT_OFFSET == 1
\* NO_ANSWER_THRESHOLD is 4.3980759382247925: an integer score is below it
\* exactly when it is at most 4.
NO_ANSWER_THRESHOLD_FLOOR == 4
\* docStride, the default value of process's last parameter.
DOC_STRIDE == 128

\* Ids of the tokenizer's vocabulary (bert_tokenizer.ts).
CLS_INDEX == 101
SEP_INDEX == 102
PAD_ID == 0

\* ------------------------------------------------------------ bounds
\* Longest passage, in characters, of the exhaustively enumerated passages.
MaxCtxLen == 3
\* Number of words of the long passage of Spec (a a a ... a).
LongWords == 400
\* Largest number of words of the passages of SpecWin.
MaxWinWords == 460

\* ------------------------------------------------------------ strings
Chars == {" ", "a", "."}
\* null / undefined, for a string argument.
NullStr == <<"null">>

Min(a, b) == IF a < b THEN a ELSE b

IsSpace(c) == c = " "
IsPunct(c) == c \in {".", "?"}

RECURSIVE FirstNonSpace(_, _)
FirstNonSpace(s, i) ==
  IF i > Len(s) \/ ~IsSpace(s[i]) THEN i ELSE FirstNonSpace(s, i + 1)

RECURSIVE LastNonSpace(_, _)
LastNonSpace(s, i) ==
  IF i < 1 \/ ~IsSpace(s[i]) THEN i ELSE LastNonSpace(s, i - 1)

\* String.prototype.trim
Trim(s) == SubSeq(s, FirstNonSpace(s, 1), LastNonSpace(s, Len(s)))

\* String.prototype.slice(from, to) for 0 <= from: 0-based, to exclusive,
\* clipped to the length of the string.
Slice(s, from, to) == SubSeq(s, from + 1, Min(to, Len(s)))

\* query.replace(/\?/g, '')
RemoveQuestionMarks(s) == SelectSeq(s, LAMBDA c : c # "?")

\* ------------------------------------------------------------ tokenizer
\* End (1-based, inclusive) of the word that starts at i: a punctuation
\* character is a word of its own, other characters run up to the next
\* space or punctuation character.
RECURSIVE WordEnd(_, _)
WordEnd(s, i) ==
  IF IsPunct(s[i]) THEN i
  ELSE IF i = Len(s) \/ IsSpace(s[i + 1]) \/ IsPunct(s[i + 1]) THEN i
  ELSE WordEnd(s, i + 1)

\* A word starts at i: a character that is not a space, at the start of the
\* text, after a space, or next to (or being) a punctuation character.
IsWordStart(s, i) ==
  /\ ~IsSpace(s[i])
  /\ \/ i = 1
     \/ IsSpace(s[i - 1])
     \/ IsPunct(s[i - 1])
     \/ IsPunct(s[i])

\* The words that start in lo .. hi, in text order.
RECURSIVE WordsIn(_, _, _)
WordsIn(s, lo, hi) ==
  IF lo > hi THEN <<>>
  ELSE IF lo = hi
    THEN IF IsWordStart(s, lo)
           THEN << [text |-> SubSeq(s, lo, WordEnd(s, lo)), index |-> lo - 1] >>
           ELSE <<>>
    ELSE LET mid == (lo + hi) \div 2 IN
         WordsIn(s, lo, mid) \o WordsIn(s, mid + 1, hi)

\* BertTokenizer.processInput: the words of the text, each with the 0-based
\* character offset in the text at which it starts.
ProcessInput(s) == WordsIn(s, 1, Len(s))

\* Sub-word ids of one word: a vocabulary of one-character pieces, the
\* first piece of a word and its continuation pieces having different ids.
PieceId(c, first) ==
  IF c = "." THEN 1012
  ELSE IF c = "?" THEN 1029
  ELSE IF first THEN 1037 ELSE 2050

WordPieces(w) == [k \in 1 .. Len(w) |-> PieceId(w[k], k = 1)]

\* The concatenation of seqs[lo], ..., seqs[hi].
RECURSIVE Flatten(_, _, _)
Flatten(seqs, lo, hi) ==
  IF lo > hi THEN <<>>
  ELSE IF lo = hi THEN seqs[lo]
  ELSE LET mid == (lo + hi) \div 2 IN
       Flatten(seqs, lo, mid) \o Flatten(seqs, mid + 1, hi)

\* BertTokenizer.tokenize: the sub-word ids of a text.
Tokenize(s) ==
  LET words == ProcessInput(s) IN
  Flatten([k \in 1 .. Len(words) |-> WordPieces(words[k].text)], 1, Len(words))

\* "a a a ... a", n words.
WordsOfA(n) ==
  [k \in 1 .. (IF n = 0 THEN 0 ELSE 2 * n - 1) |->
     IF k % 2 = 1 THEN "a" ELSE " "]

\* ------------------------------------------------------------ state
VARIABLES
  pc,               \* where the findAnswers call is
  error,            \* the error the call failed with, "" if none
  question,         \* findAnswers' arguments
  context,
  id,
  queryTokens,      \* process: locals
  origTokens,
  tokenToOrigIndex,
  allDocTokens,
  maxContextLen,
  startOffset,
  docSpans,
  features,         \* process's result
  liveTensors,      \* the tensors allocated and not disposed
  logits,           \* per feature, the start and end logits read from the model
  origResults,      \* per feature, getBestAnswers' scored candidates, sorted
  answers           \* findAnswers' result

vars == << pc, error, question, context, id, queryTokens, origTokens,
           tokenToOrigIndex, allDocTokens, maxContextLen, startOffset,
           docSpans, features, liveTensors, logits, origResults, answers >>

procVars == << queryTokens, origTokens, tokenToOrigIndex, allDocTokens,
               maxContextLen >>
argVars == << question, context, id >>

Positions == 0 .. MAX_SEQ_LEN - 1

\* ------------------------------------------------------------ process
\* Lines 113-115: the question without question marks, trimmed, with one
\* question mark appended.
NormalizeQuery(query) == Append(Trim(RemoveQuestionMarks(query)), "?")

\* Lines 124-134: for every sub-word of the passage, the index of the word
\* it comes from.
TokenToOrigIndexOf(toks) ==
  Flatten([k \in 1 .. Len(toks) |->
             [j \in 1 .. Len(Tokenize(toks[k].text)) |-> k - 1]],
          1, Len(toks))

\* Lines 124-134: the sub-words of the passage.
AllDocTokensOf(toks) ==
  Flatten([k \in 1 .. Len(toks) |-> Tokenize(toks[k].text)], 1, Len(toks))

\* ReachesEnd with > for ===.
ReachesEndStrict(offset, length, total) == offset + length > total

\* Line 150: the window reaches the end of the sub-word sequence.
ReachesEnd(offset, length, total) == offset + length = total

\* Advance without the stride: the next window starts where this one ends.
AdvanceByLength(length, docStride) == length

\* Line 153: how far the next window starts after this one.
Advance(length, docStride) == Min(length, docStride)

\* Lines 145-148: the length of the window that starts at offset.
WindowLength(offset, total, maxLen) ==
  IF total - offset > maxLen THEN maxLen ELSE total - offset

\* Lines 157-177: the ids of one window, before padding.
WindowTokens(qTokens, docTokens, span) ==
  << CLS_INDEX >> \o qTokens \o << SEP_INDEX >>
    \o SubSeq(docTokens, span.start + 1, span.start + span.length)
    \o << SEP_INDEX >>

\* TokenToOrigMapOf with the key i + 1, the place in the window's passage
\* part, for tokens.length.
TokenToOrigMapByPassageIndex(qTokens, tokToOrig, span) ==
  [key \in 1 .. span.length |-> tokToOrig[(key - 1) + span.start + 1]]

\* Lines 159, 169-175: tokens.length, read after the push, is the key; the
\* i-th passage sub-word of the window is pushed after [CLS], the question
\* and [SEP].
TokenToOrigMapOf(qTokens, tokToOrig, span) ==
  [key \in (Len(qTokens) + 3) .. (Len(qTokens) + 2 + span.length) |->
     tokToOrig[(key - (Len(qTokens) + 3)) + span.start + 1]]

\* Lines 156-186: the feature of one window.
FeatureOf(qTokens, docTokens, tokToOrig, toks, span, maxSeqLen) ==
  LET tokens == WindowTokens(qTokens, docTokens, span)
      real == Len(tokens)
      total == IF real < maxSeqLen THEN maxSeqLen ELSE real
  IN [ inputIds   |-> [k \in 1 .. total |->
                         IF k <= real THEN tokens[k] ELSE PAD_ID],
       inputMask  |-> [k \in 1 .. total |-> IF k <= real THEN 1 ELSE 0],
       segmentIds |-> [k \in 1 .. total |->
                         IF k <= Len(qTokens) + 2 THEN 0
                         ELSE IF k <= real THEN 1 ELSE 0],
       origTokens |-> toks,
       tokenToOrigMap |-> TokenToOrigMapOf(qTokens, tokToOrig, span) ]

\* findAnswers is called (lines 216-224) and process runs up to its window
\* loop (lines 113-143).
FindAnswersCall(qs, cs) ==
  /\ pc = "idle"
  /\ \E q \in qs, c \in cs, i \in {"undefined", "doc1"} :
       /\ question' = q
       /\ context' = c
       /\ id' = i
       /\ IF q = NullStr \/ c = NullStr
            THEN /\ pc' = "failed"
                 /\ error' = "InvalidInput"
                 /\ UNCHANGED procVars
            ELSE LET qTokens == Tokenize(NormalizeQuery(q))
                     toks == ProcessInput(Trim(c))
                 IN IF Len(qTokens) > MAX_QUERY_LEN
                      THEN /\ pc' = "failed"
                           /\ error' = "InputTooLong"
                           /\ UNCHANGED procVars
                      ELSE /\ pc' = "windowing"
                           /\ error' = ""
                           /\ queryTokens' = qTokens
                           /\ origTokens' = toks
                           /\ tokenToOrigIndex' = TokenToOrigIndexOf(toks)
                           /\ allDocTokens' = AllDocTokensOf(toks)
                           /\ maxContextLen' = MAX_SEQ_LEN - Len(qTokens) - 3
  /\ UNCHANGED << startOffset, docSpans, features, liveTensors, logits,
                  origResults, answers >>

\* One iteration of the window loop (lines 144-154).
WindowStep ==
  /\ pc = "windowing"
  /\ startOffset < Len(allDocTokens)
  /\ LET length == WindowLength(startOffset, Len(allDocTokens), maxContextLen)
     IN /\ docSpans' = Append(docSpans, [start |-> startOffset, length |-> length])
        /\ IF ReachesEnd(startOffset, length, Len(allDocTokens))
             THEN /\ pc' = "spans"
                  /\ UNCHANGED startOffset
             ELSE /\ pc' = "windowing"
                  /\ startOffset' = startOffset + Advance(length, DOC_STRIDE)
  /\ UNCHANGED << error, argVars, procVars, features, liveTensors, logits,
                  origResults, answers >>

\* The window loop ends on its condition (line 144).
WindowExit ==
  /\ pc = "windowing"
  /\ ~(startOffset < Len(allDocTokens))
  /\ pc' = "spans"
  /\ UNCHANGED << error, argVars, procVars, startOffset, docSpans, features,
                  liveTensors, logits, origResults, answers >>

\* process builds the features and returns (lines 156-187).
BuildFeatures ==
  /\ pc = "spans"
  /\ features' = [k \in 1 .. Len(docSpans) |->
                    FeatureOf(queryTokens, allDocTokens, tokenToOrigIndex,
                              origTokens, docSpans[k], MAX_SEQ_LEN)]
  /\ pc' = "processed"
  /\ UNCHANGED << error, argVars, procVars, startOffset, docSpans,
                  liveTensors, logits, origResults, answers >>

\* ------------------------------------------------------------ decoder
MaxOf(S) == CHOOSE m \in S : \A v \in S : v <= m

PositionSeq == [k \in 1 .. MAX_SEQ_LEN |-> k - 1]

\* The positions in the order of the stable descending sort of line 329, as
\* far as the first n of them need: the positions of the largest value in
\* ascending order, then those of the next value, and so on.
RECURSIVE SortedPositions(_, _, _, _)
SortedPositions(lg, values, n, acc) ==
  IF Len(acc) >= n \/ values = {} THEN acc
  ELSE LET m == MaxOf(values) IN
       SortedPositions(lg, values \ {m}, n,
         acc \o SelectSeq(PositionSeq, LAMBDA p : lg[p] = m))

\* getBestIndex pushing tmpList[0][0] at every turn of its second loop.
GetBestIndexFirstOnly(lg) ==
  [k \in 1 .. PREDICT_ANSWER_NUM |->
     SortedPositions(lg, { lg[p] : p \in Positions }, PREDICT_ANSWER_NUM, <<>>)[1]]

\* getBestIndex (lines 324-337): the first PREDICT_ANSWER_NUM positions of
\* the logits sorted by descending value.
GetBestIndex(lg) ==
  SubSeq(SortedPositions(lg, { lg[p] : p \in Positions }, PREDICT_ANSWER_NUM, <<>>),
         1, PREDICT_ANSWER_NUM)

\* tokenToOrigMap[key] as a condition (line 283): an absent key reads as
\* undefined, and undefined and 0 are both falsy.
Truthy(map, key) == key \in DOMAIN map /\ map[key] # 0

\* KeepsPair without the limit on the length of the answer.
KeepsPairAnyLength(map, start, end) ==
  /\ Truthy(map, start + OUTPUT_OFFSET)
  /\ Truthy(map, end + OUTPUT_OFFSET)
  /\ end >= start

\* Lines 283-285: the pair (start, end) becomes a candidate.
KeepsPair(map, start, end) ==
  /\ Truthy(map, start + OUTPUT_OFFSET)
  /\ Truthy(map, end + OUTPUT_OFFSET)
  /\ end >= start
  /\ end - start + 1 < MAX_ANSWER_LEN

\* Lines 280-291: the candidates of one feature, in the order of the loops.
CandidatesOf(startLogits, endLogits, map) ==
  LET startIndexes == GetBestIndex(startLogits)
      endIndexes == GetBestIndex(endLogits)
      row(start) ==
        LET kept == SelectSeq(endIndexes, LAMBDA end : KeepsPair(map, start, end))
        IN [k \in 1 .. Len(kept) |->
              [start |-> start, end |-> kept[k],
               score |-> startLogits[start] + endLogits[kept[k]]]]
  IN Flatten([k \in 1 .. Len(startIndexes) |-> row(startIndexes[k])],
             1, Len(startIndexes))

\* Array.prototype.sort with (a, b) => b.score - a.score: a stable sort by
\* descending score.  x goes after every element whose score is not smaller.
InsertByScore(sorted, x) ==
  LET before == SelectSeq(sorted, LAMBDA y : y.score >= x.score)
      after == SelectSeq(sorted, LAMBDA y : y.score < x.score)
  IN before \o << x >> \o after

RECURSIVE SortByScore(_, _, _)
SortByScore(seq, i, acc) ==
  IF i > Len(seq) THEN acc
  ELSE SortByScore(seq, i + 1, InsertByScore(acc, seq[i]))

\* Line 297: the score is below NO_ANSWER_THRESHOLD.
BelowThreshold(score) == score <= NO_ANSWER_THRESHOLD_FLOOR

\* convertBack (lines 340-358): the text and the character offsets of the
\* sub-word span (start, end).
ConvertBack(toks, map, start, end, ctx) ==
  LET shiftedStart == start + OUTPUT_OFFSET
      shiftedEnd == end + OUTPUT_OFFSET
      startIndex == map[shiftedStart]
      endIndex == map[shiftedEnd]
      startCharIndex == toks[startIndex + 1].index
      endCharIndex ==
        IF endIndex < Len(toks) - 1
          THEN toks[endIndex + 2].index - 1
          ELSE toks[endIndex + 1].index + Len(toks[endIndex + 1].text)
  IN << Trim(Slice(ctx, startCharIndex, endCharIndex + 1)),
        startCharIndex, endCharIndex >>

\* Lines 295-299: how many of the sorted candidates the loop turns into
\* answers: it stops at the first candidate that is the sixth or whose score
\* is below the threshold.
Retained(sorted) ==
  Cardinality({ i \in 1 .. Min(Len(sorted), PREDICT_ANSWER_NUM) :
                  \A j \in 1 .. i : ~BelowThreshold(sorted[j].score) })

\* Lines 301-318: the answer of one candidate.  The field "from" is not in
\* the source: it records the window and the sub-word span the answer was
\* made from.
AnswerOf(cand, toks, map, ctx, docIndex, ident) ==
  LET conv == IF cand.start > 0
                THEN ConvertBack(toks, map, cand.start, cand.end, ctx)
                ELSE << <<>>, 0, 0 >>
  IN [ text |-> conv[1], score |-> cand.score, startIndex |-> conv[2],
       endIndex |-> conv[3], context |-> ctx, id |-> ident,
       from |-> [docIndex |-> docIndex, start |-> cand.start, end |-> cand.end] ]

\* getBestAnswers (lines 272-321), given the sorted candidates of line 293.
GetBestAnswers(sorted, toks, map, ctx, docIndex, ident) ==
  [i \in 1 .. Retained(sorted) |->
     AnswerOf(sorted[i], toks, map, ctx, docIndex, ident)]

\* MergeAnswers without the sort.
MergeAnswersUnsorted(perFeature) ==
  LET flat == Flatten(perFeature, 1, Len(perFeature))
  IN SubSeq(flat, 1, Min(Len(flat), PREDICT_ANSWER_NUM))

\* Lines 259-262: the answers of all features, flattened, sorted by
\* descending score and cut to the first PREDICT_ANSWER_NUM.
MergeAnswers(perFeature) ==
  LET flat == Flatten(perFeature, 1, Len(perFeature))
      sorted == SortByScore(flat, 1, <<>>)
  IN SubSeq(sorted, 1, Min(Len(sorted), PREDICT_ANSWER_NUM))

\* ------------------------------------------------------------ model output
\* The logits the model may return for one feature are drawn from a family
\* of profiles: 0 everywhere but on three consecutive positions from an
\* anchor, which hold level + 2, level + 1, level.
Anchors == { "cls", "first", "last", "far", "stride" }
Levels == { 2, 8 }
RampLen == 3

\* Position of the first passage sub-word of a window.
DocStart(qTokens) == Len(qTokens) + 2

AnchorPosition(a, qTokens, span) ==
  LET d0 == DocStart(qTokens) IN
  CASE a = "cls" -> 0
    [] a = "first" -> d0
    [] a = "last" -> d0 + span.length - 1
    [] a = "far" -> IF span.length > MAX_ANSWER_LEN + RampLen
                      THEN d0 + MAX_ANSWER_LEN - 1 ELSE d0
    [] a = "stride" -> IF span.length > DOC_STRIDE + RampLen
                         THEN d0 + DOC_STRIDE ELSE d0

Ramp(at, level) ==
  [p \in Positions |->
     IF p >= at /\ p < at + RampLen THEN level + (RampLen - 1) - (p - at) ELSE 0]

Profiles == [startAt : Anchors, endAt : Anchors, level : Levels]

LogitsOf(profile, qTokens, span) ==
  [ start |-> Ramp(AnchorPosition(profile.startAt, qTokens, span), profile.level),
    end |-> Ramp(AnchorPosition(profile.endAt, qTokens, span), profile.level) ]

\* ------------------------------------------------------------ findAnswers
InputTensors == { "inputIds", "segmentIds", "inputMask" }
ResultTensors == { "startLogits", "endLogits" }

\* tf.tidy (lines 230-245): the tensors made in the scope are disposed when
\* it ends, by return or by exception, but for the tensors it returns.
TidyKeeps(made, returned, threw) == IF threw THEN {} ELSE made \cap returned

\* Lines 225-246, the model runs: globalStep is allocated, the input tensors
\* are allocated in the tidy scope, the model returns the two logits tensors
\* and the call waits for their arrays.
ExecuteReturns ==
  /\ pc = "processed"
  /\ \E choice \in [1 .. Len(features) -> Profiles] :
       logits' = [k \in 1 .. Len(features) |->
                    LogitsOf(choice[k], queryTokens, docSpans[k])]
  /\ liveTensors' = liveTensors \cup { "globalStep" }
                      \cup TidyKeeps(InputTensors \cup ResultTensors,
                                     ResultTensors, FALSE)
  /\ pc' = "awaiting"
  /\ UNCHANGED << error, argVars, procVars, startOffset, docSpans, features,
                  origResults, answers >>

\* Lines 225-245, the model throws: the exception leaves the tidy scope and
\* findAnswers.
ExecuteThrows ==
  /\ pc = "processed"
  /\ liveTensors' = liveTensors \cup { "globalStep" }
                      \cup TidyKeeps(InputTensors, ResultTensors, TRUE)
  /\ pc' = "failed"
  /\ error' = "ExecuteError"
  /\ UNCHANGED << argVars, procVars, startOffset, docSpans, features,
                  logits, origResults, answers >>

\* Lines 246-262: the arrays of the logits arrive, the tensors are disposed,
\* the answers are decoded and returned.
ArraysResolve ==
  /\ pc = "awaiting"
  /\ liveTensors' = liveTensors \ ({ "globalStep" } \cup ResultTensors)
  /\ LET sorted == [k \in 1 .. Len(features) |->
                      SortByScore(CandidatesOf(logits[k].start, logits[k].end,
                                               features[k].tokenToOrigMap),
                                  1, <<>>)]
     IN /\ origResults' = sorted
        /\ answers' = MergeAnswers(
             [k \in 1 .. Len(features) |->
                GetBestAnswers(sorted[k], features[k].origTokens,
                               features[k].tokenToOrigMap, context, k - 1, id)])
  /\ pc' = "done"
  /\ UNCHANGED << error, argVars, procVars, startOffset, docSpans, features,
                  logits >>

\* Line 246: reading the arrays fails, and the rejection leaves findAnswers.
ArraysReject ==
  /\ pc = "awaiting"
  /\ pc' = "failed"
  /\ error' = "ArrayError"
  /\ UNCHANGED << argVars, procVars, startOffset, docSpans, features,
                  liveTensors, logits, origResults, answers >>

\* ------------------------------------------------------------ inputs
RECURSIVE StringsUpTo(_)
StringsUpTo(n) ==
  IF n = 0 THEN { <<>> }
  ELSE LET shorter == StringsUpTo(n - 1) IN
       shorter \cup { Append(s, c) : s \in shorter, c \in Chars }

LettersA(n) == [k \in 1 .. n |-> "a"]

Questions ==
  { NullStr, << "?" >>, << " ", "a", "?", "?", " " >>, LettersA(MAX_QUERY_LEN) }
Contexts == { NullStr } \cup StringsUpTo(MaxCtxLen) \cup { WordsOfA(LongWords) }

WinQuestions == { << "?" >>, LettersA(MAX_QUERY_LEN - 1) }
WinContexts == { WordsOfA(n) : n \in 0 .. MaxWinWords }

Init ==
  /\ pc = "idle"
  /\ error = ""
  /\ question = <<>>
  /\ context = <<>>
  /\ id = "undefined"
  /\ queryTokens = <<>>
  /\ origTokens = <<>>
  /\ tokenToOrigIndex = <<>>
  /\ allDocTokens = <<>>
  /\ maxContextLen = 0
  /\ startOffset = 0
  /\ docSpans = <<>>
  /\ features = <<>>
  /\ liveTensors = {}
  /\ logits = <<>>
  /\ origResults = <<>>
  /\ answers = <<>>

Next ==
  \/ FindAnswersCall(Questions, Contexts)
  \/ WindowStep
  \/ WindowExit
  \/ BuildFeatures
  \/ ExecuteReturns
  \/ ExecuteThrows
  \/ ArraysResolve
  \/ ArraysReject

Spec == Init /\ [][Next]_vars

NextWin ==
  \/ FindAnswersCall(WinQuestions, WinContexts)
  \/ WindowStep
  \/ WindowExit
  \/ BuildFeatures

SpecWin == Init /\ [][NextWin]_vars /\ WF_vars(NextWin)

\* ------------------------------------------------------------ properties
Returned == pc = "done"
Ended == pc \in { "done", "failed" }

AnswerIndexes == 1 .. Len(answers)

\* The positions of the passage sub-words in window k (counted from 1).
PassageRegion(k) ==
  DocStart(queryTokens) .. (DocStart(queryTokens) + docSpans[k].length - 1)

BestStarts(k) == { GetBestIndex(logits[k].start)[n] : n \in 1 .. PREDICT_ANSWER_NUM }
BestEnds(k) == { GetBestIndex(logits[k].end)[n] : n \in 1 .. PREDICT_ANSWER_NUM }

IsCandidate(k, s, e) ==
  \E n \in 1 .. Len(origResults[k]) :
    origResults[k][n].start = s /\ origResults[k][n].end = e

\* C1: a findAnswers call that returns, returns at most PREDICT_ANSWER_NUM
\* answers, in the order of non-increasing score.
C1_RankedTopFive ==
  Returned =>
    /\ Len(answers) <= PREDICT_ANSWER_NUM
    /\ \A i, j \in AnswerIndexes : i < j => answers[i].score >= answers[j].score

\* C1's case: two windows give more candidates than are returned, and an
\* answer of the second window is ranked before an answer of the first.
C1_Witness ==
  /\ Returned
  /\ Len(features) = 2
  /\ Len(origResults[1]) + Len(origResults[2]) > PREDICT_ANSWER_NUM
  /\ Len(answers) = PREDICT_ANSWER_NUM
  /\ \E i, j \in AnswerIndexes :
       /\ i < j
       /\ answers[i].from.docIndex = 1
       /\ answers[j].from.docIndex = 0
       /\ answers[i].score > answers[j].score

\* C2: no returned answer is made from a sub-word span that ends before it
\* starts, that is MAX_ANSWER_LEN long or longer, or that starts or ends
\* outside the passage region of its window.
C2_SpansValid ==
  Returned =>
    \A i \in AnswerIndexes :
      LET f == answers[i].from
          feature == features[f.docIndex + 1]
      IN /\ f.end >= f.start
         /\ f.end - f.start + 1 < MAX_ANSWER_LEN
         /\ f.start \in PassageRegion(f.docIndex + 1)
         /\ f.end \in PassageRegion(f.docIndex + 1)
         /\ \A p \in { f.start, f.end } :
              /\ feature.segmentIds[p + 1] = 1
              /\ feature.inputMask[p + 1] = 1
              /\ feature.inputIds[p + 1] \notin { CLS_INDEX, SEP_INDEX, PAD_ID }

\* C2's case: answers are returned by a call in which the best start and end
\* positions of the windows hold a pair in the passage that ends before it
\* starts, a pair in the passage that is too long, and a pair outside the
\* passage.
C2_Witness ==
  /\ Returned
  /\ Len(answers) > 0
  /\ \E k \in 1 .. Len(features) :
       \E s \in BestStarts(k), e \in BestEnds(k) :
         s \in PassageRegion(k) /\ e \in PassageRegion(k) /\ e < s
  /\ \E k \in 1 .. Len(features) :
       \E s \in BestStarts(k), e \in BestEnds(k) :
         /\ s \in PassageRegion(k) /\ e \in PassageRegion(k)
         /\ e - s + 1 >= MAX_ANSWER_LEN
  /\ \E k \in 1 .. Len(features) :
       \E s \in BestStarts(k), e \in BestEnds(k) :
         s \notin PassageRegion(k) /\ e \notin PassageRegion(k) /\ e >= s

\* C3: every returned answer with a text has
\* 0 <= startIndex <= endIndex < length(context).
C3_OffsetsInContext ==
  Returned =>
    \A i \in AnswerIndexes :
      answers[i].text # <<>> =>
        /\ 0 <= answers[i].startIndex
        /\ answers[i].startIndex <= answers[i].endIndex
        /\ answers[i].endIndex < Len(context)

\* The text of the passage from the first character of word s to the last
\* character of word e (word indexes as in tokenToOrigMap).
CoveredText(s, e) ==
  SubSeq(Trim(context), origTokens[s + 1].index + 1,
         origTokens[e + 1].index + Len(origTokens[e + 1].text))

\* C4: the character span of a returned answer, sliced from the context
\* given to findAnswers and trimmed, is the text from the first to the last
\* word the answer's sub-word span maps to.
C4_SpanIsCoveredText ==
  Returned =>
    \A i \in AnswerIndexes :
      LET a == answers[i]
          map == features[a.from.docIndex + 1].tokenToOrigMap
      IN Trim(Slice(context, a.startIndex, a.endIndex + 1))
           = CoveredText(map[a.from.start + OUTPUT_OFFSET],
                         map[a.from.end + OUTPUT_OFFSET])

\* C5, as claimed: no two returned answers have the same character span.
C5_NoSameCharSpan ==
  Returned =>
    \A i, j \in AnswerIndexes :
      i # j =>
        << answers[i].startIndex, answers[i].endIndex >>
          # << answers[j].startIndex, answers[j].endIndex >>

\* C5, amended: no two returned answers are made from the same sub-word
\* span of the same window.
C5_NoSameSubwordSpan ==
  Returned =>
    \A i, j \in AnswerIndexes : i # j => answers[i].from # answers[j].from

\* C5's case: two returned answers with the same character span, made from
\* two windows that overlap.
C5_Witness ==
  /\ Returned
  /\ \E i, j \in AnswerIndexes :
       /\ i # j
       /\ answers[i].startIndex = answers[j].startIndex
       /\ answers[i].endIndex = answers[j].endIndex
       /\ answers[i].from.docIndex # answers[j].from.docIndex

\* C6: when findAnswers has ended, by return or by exception, no tensor it
\* allocated is still allocated.
C6_TensorsReleased == Ended => liveTensors = {}

\* C7, as claimed: a passage of fewer than maxContextLen sub-words, none
\* included, gives exactly one feature, from offset 0 over all the passage.
C7_OneFeatureFromZero ==
  (pc = "processed" /\ Len(allDocTokens) < maxContextLen) =>
    /\ Len(features) = 1
    /\ docSpans = << [start |-> 0, length |-> Len(allDocTokens)] >>

\* C7, amended: a passage of at least one and fewer than maxContextLen
\* sub-words gives exactly one feature, from offset 0 over all the passage,
\* and a passage of no sub-word gives no feature.
C7_OneFeatureFromOne ==
  pc = "processed" =>
    /\ (Len(allDocTokens) >= 1 /\ Len(allDocTokens) < maxContextLen) =>
         /\ Len(features) = 1
         /\ docSpans = << [start |-> 0, length |-> Len(allDocTokens)] >>
         /\ SubSeq(features[1].inputIds, DocStart(queryTokens) + 1,
                   DocStart(queryTokens) + Len(allDocTokens)) = allDocTokens
         /\ Cardinality(DOMAIN features[1].tokenToOrigMap) = Len(allDocTokens)
    /\ Len(allDocTokens) = 0 => Len(features) = 0

\* C7's case: the longest passage that is shorter than maxContextLen.
C7_Witness ==
  /\ pc = "processed"
  /\ Len(allDocTokens) = maxContextLen - 1
  /\ Len(features) = 1

WindowsCover ==
  (pc \in { "spans", "processed" } /\ Len(docSpans) > 0) =>
    /\ docSpans[1].start = 0
    /\ \A k \in 2 .. Len(docSpans) :
         docSpans[k].start = docSpans[k - 1].start + DOC_STRIDE
    /\ \A k \in 1 .. Len(docSpans) : docSpans[k].length <= maxContextLen
    /\ docSpans[Len(docSpans)].start + docSpans[Len(docSpans)].length
         = Len(allDocTokens)
    /\ \A p \in 0 .. Len(allDocTokens) - 1 :
         \E k \in 1 .. Len(docSpans) :
           docSpans[k].start <= p /\ p < docSpans[k].start + docSpans[k].length

\* C8: the window loop ends, and the windows it made cover the sub-word
\* sequence: the first starts at 0, each next one DOC_STRIDE after the one
\* before, none is longer than maxContextLen, the last ends at the end of
\* the sequence, and every position is in a window.
C8_WindowsCover ==
  /\ []WindowsCover
  /\ (pc = "windowing") ~> (pc = "spans")

\* C8's case: three windows, the last one clipped.
C8_Witness ==
  /\ pc = "processed"
  /\ Len(docSpans) = 3
  /\ docSpans[3].length < maxContextLen

\* C9: a pair of a best start and a best end position is a candidate
\* exactly when both positions, shifted, are keys of tokenToOrigMap, the end
\* is not before the start and the span is shorter than MAX_ANSWER_LEN.
C9_CandidateIffMapped ==
  Returned =>
    \A k \in 1 .. Len(features) :
      \A s \in BestStarts(k), e \in BestEnds(k) :
        IsCandidate(k, s, e) <=>
          /\ s + OUTPUT_OFFSET \in DOMAIN features[k].tokenToOrigMap
          /\ e + OUTPUT_OFFSET \in DOMAIN features[k].tokenToOrigMap
          /\ e >= s
          /\ e - s + 1 < MAX_ANSWER_LEN

\* The no-answer sentinel of lines 301-310.
IsSentinel(a) == a.text = <<>> /\ a.startIndex = 0 /\ a.endIndex = 0

\* C10: every candidate starts at or after position len(queryTokens) + 2,
\* which is positive, and no returned answer is the no-answer sentinel.
C10_NoSentinel ==
  Returned =>
    /\ \A k \in 1 .. Len(features) :
         \A n \in 1 .. Len(origResults[k]) :
           /\ origResults[k][n].start >= Len(queryTokens) + 2
           /\ origResults[k][n].start > 0
    /\ \A k \in 1 .. Len(features) :
         \A key \in DOMAIN features[k].tokenToOrigMap : key >= Len(queryTokens) + 3
    /\ \A i \in AnswerIndexes : ~IsSentinel(answers[i])

\* C10's case: position 0 is the best start and the best end of a window,
\* with a score above the threshold, and the call returns no answer.
C10_Witness ==
  /\ Returned
  /\ Len(features) > 0
  /\ \A k \in 1 .. Len(features) :
       /\ GetBestIndex(logits[k].start)[1] = 0
       /\ GetBestIndex(logits[k].end)[1] = 0
       /\ ~BelowThreshold(logits[k].start[0] + logits[k].end[0])
  /\ answers = <<>>
====
